---------------------------- MODULE Spec2Model ----------------------------
(***************************************************************************)
(* The image pipeline of handle_callback (main.py), its deduplication gate *)
(* (the check_if_X_exists and add_X functions) and the ledger of            *)
(* SheetsStorage                                                            *)
(* (src/sheets_storage.py), as a state machine.                             *)
(*                                                                          *)
(* A run is one image event of one webhook call.  handle_callback is an     *)
(* asyncio coroutine: it gives up the event loop only at its await          *)
(* expressions (get_message_content, reply_message).  The model calls, the  *)
(* ledger lookups and the ledger appends are blocking calls made while the  *)
(* run holds the loop.  The variable loop names the run that holds it.      *)
(***************************************************************************)
EXTENDS Naturals, Sequences, FiniteSets, TLC

\* ------------------------------------------------------------- bounds
MaxRuns == 2
MaxOrigKeys == 2
MaxTwKeys == 1
MaxPartial == 1
MaxTextLen == 3
MaxEvents == 2
MaxBatch == 3

Runs == 1 .. MaxRuns
Users == {"u1", "u2"}

\* ------------------------------------------------------- JSON values
\* The four top-level keys handle_callback looks for, in the order of its
\* if-statements.
Variants == <<"Receipt", "Ticket", "Hotel", "Attraction">>
VariantSet == {Variants[i] : i \in 1 .. Len(Variants)}

\* Identifier field of a primary record, as json.loads gives it: "NONE" is a
\* missing key (dict.get returns None), "" an empty string, "a" a string,
\* "#1" the JSON number 1 and "1" the string of its digits.
NoId == "NONE"
Ids == {NoId, "", "a", "1", "#1"}
\* The identifiers the model outputs carry.
DocIds == {NoId, "a", "#1"}
IdTruthy(i) == i \notin {NoId, ""}
\* Python str() of a cell value.
str(x) == IF x = "#1" THEN "1" ELSE x

\* The value found under a variant key of a decoded object, by the shape the
\* pipeline tells apart: absent (or null), [], {}, a non-empty value that is
\* neither list nor map, a non-empty map, a non-empty list of maps.
\* lang says which model output it came from.
Absent == [shape |-> "absent", id |-> NoId, lang |-> "-"]
Shaped(s, lang) == [shape |-> s, id |-> NoId, lang |-> lang]
Map(i, lang) == [shape |-> "map", id |-> i, lang |-> lang]
ListOf(i, lang) == [shape |-> "list", id |-> i, lang |-> lang]
PVals(lang) ==
    {Absent} \cup {Shaped(s, lang) : s \in {"emptylist", "emptymap", "scalar"}}
    \cup {Map(i, lang) : i \in DocIds} \cup {ListOf("a", lang)}

\* Python truthiness of an extracted primary record.
Truthy(p) == p.shape \in {"scalar", "map"}
\* Whether .get can be called on it.
IsMap(p) == p.shape \in {"map", "emptymap"}

Populated(o) == {v \in VariantSet : o[v] # Absent}
Objs(lang, maxKeys) ==
    {o \in [VariantSet -> PVals(lang)] : Cardinality(Populated(o)) <= maxKeys}

\* A model output, by what parse_receipt_json makes of it: "empty" is the
\* empty string, "garbage" a text neither the strict nor the repair parse
\* accepts, "nondict" a JSON text whose top level is a non-empty list,
\* "dict" a JSON object.
NoObj == [v \in VariantSet |-> Absent]
Raw(kind, o, lang) == [kind |-> kind, obj |-> o, lang |-> lang]
RawOutputs(lang, maxKeys) ==
    {Raw(k, NoObj, lang) : k \in {"empty", "garbage", "nondict"}}
    \cup {Raw("dict", o, lang) : o \in Objs(lang, maxKeys)}

\* What parse_receipt_json returns for a model output of that kind: None, or
\* the decoded value.
ParseOutcome(raw) ==
    IF raw.kind \in {"empty", "garbage"}
    THEN [top |-> "none", obj |-> NoObj, lang |-> raw.lang]
    ELSE [top |-> raw.kind, obj |-> raw.obj, lang |-> raw.lang]

\* extract_*_data: the primary record under the key, the first element when it
\* is a non-empty list.  A decoded value that is not a mapping has no .get.
\* The child collection (Items, Segments, RoomDetails) is kept as the model
\* output it was read from.
ExtractKey(parsed, key) ==
    IF parsed.top = "nondict"
    THEN [raises |-> TRUE, val |-> Absent, children |-> "-"]
    ELSE LET p == parsed.obj[key]
         IN [raises |-> FALSE,
             val |-> IF p.shape = "list" THEN Map(p.id, p.lang) ELSE p,
             children |-> parsed.lang]
extract_receipt_data(parsed) == ExtractKey(parsed, "Receipt")
extract_ticket_data(parsed) == ExtractKey(parsed, "Ticket")
extract_hotel_data(parsed) == ExtractKey(parsed, "Hotel")
extract_attraction_data(parsed) == ExtractKey(parsed, "Attraction")
Extract(parsed) ==
    [v \in VariantSet |->
        CASE v = "Receipt" -> extract_receipt_data(parsed).val
          [] v = "Ticket" -> extract_ticket_data(parsed).val
          [] v = "Hotel" -> extract_hotel_data(parsed).val
          [] v = "Attraction" -> extract_attraction_data(parsed).val]

\* The original and the translated model outputs a run may get.
OrigOutputs == RawOutputs("orig", MaxOrigKeys)
TwOutputs == RawOutputs("tw", MaxTwKeys)

\* The branch handle_callback takes: if receipt / if ticket / if hotel /
\* if attraction, each returning; "None" when it falls through.
HandledVariantTicketFirst(ex) ==
    IF Truthy(ex["Ticket"]) THEN "Ticket"
    ELSE IF Truthy(ex["Receipt"]) THEN "Receipt"
    ELSE IF Truthy(ex["Hotel"]) THEN "Hotel"
    ELSE IF Truthy(ex["Attraction"]) THEN "Attraction"
    ELSE "None"
HandledVariant(ex) ==
    IF Truthy(ex["Receipt"]) THEN "Receipt"
    ELSE IF Truthy(ex["Ticket"]) THEN "Ticket"
    ELSE IF Truthy(ex["Hotel"]) THEN "Hotel"
    ELSE IF Truthy(ex["Attraction"]) THEN "Attraction"
    ELSE "None"

\* ---------------------------------------------------------- accessors
\* A JSON value by kind and truthiness: n is 0 for the empty list, the empty
\* mapping, the empty string and the number 0, and 1 for a non-empty one.
\* "absent" is a key the object does not have, "null" the JSON null.
JV(kind, n) == [kind |-> kind, n |-> n]
Missing == JV("absent", 0)
JNull == JV("null", 0)
EmptyList == JV("list", 0)
JVals ==
    {Missing, JNull}
    \cup {JV(k, n) : k \in {"list", "map", "str", "num"}, n \in 0 .. 1}
\* The elements of the lists of the model outputs are mappings.
FirstOf(val) == JV("map", 1)
\* dict.get(key): None for a key that is not there.
get(val) == IF val = Missing THEN JNull ELSE val
\* dict.get(key, []): the default only for a key that is not there.
get_default(val) == IF val = Missing THEN EmptyList ELSE val
truthy(val) == val.n = 1

\* The sibling key of each variant; extract_attraction_data reads none.
SiblingOf(v) ==
    CASE v = "Receipt" -> "Items"
      [] v = "Ticket" -> "Segments"
      [] v = "Hotel" -> "RoomDetails"
      [] v = "Attraction" -> "-"

\* X_obj = json_obj.get("X"); if X_obj and isinstance(X_obj, list): X_obj[0]
ExtractPrimary(pv) ==
    IF truthy(get(pv)) /\ get(pv).kind = "list" THEN FirstOf(pv) ELSE get(pv)
\* items = json_obj.get("Items") or []
ExtractChildren(cv) == IF truthy(get(cv)) THEN get(cv) ELSE EmptyList
\* main_aoai.py: items = receipt_json_obj.get("Items", [])
ExtractChildrenAoai(cv) == get_default(cv)

\* -------------------------------------------------------------- text
\* A text is a sequence of tokens: the braces and brackets, "P" a member with
\* a scalar value ("k":1), "K" a key with its colon ("k":) that a value must
\* follow, the comma, "1" a number, "null", the space, the newline, "fence" the three
\* backquotes and "json" a language tag.
Tokens == {"{", "}", "[", "]", "P", "K", ",", "1", "null", " ", "\n", "fence", "json"}
IsWs(c) == c \in {" ", "\n"}

\* str.strip
RECURSIVE lstrip(_)
lstrip(s) == IF s # <<>> /\ IsWs(Head(s)) THEN lstrip(Tail(s)) ELSE s
RECURSIVE rstrip(_)
rstrip(s) ==
    IF s # <<>> /\ IsWs(s[Len(s)]) THEN rstrip(SubSeq(s, 1, Len(s) - 1)) ELSE s
strip(s) == rstrip(lstrip(s))

\* str.find and str.rfind: the index of the first / last occurrence, 0 when
\* there is none.
find(s, c) ==
    IF \E i \in 1 .. Len(s) : s[i] = c
    THEN CHOOSE i \in 1 .. Len(s) : s[i] = c /\ \A j \in 1 .. (i - 1) : s[j] # c
    ELSE 0
rfind(s, c) ==
    IF \E i \in 1 .. Len(s) : s[i] = c
    THEN CHOOSE i \in 1 .. Len(s) : s[i] = c /\ \A j \in (i + 1) .. Len(s) : s[j] # c
    ELSE 0
startswith(s, c) == s # <<>> /\ s[1] = c
endswith(s, c) == s # <<>> /\ s[Len(s)] = c

\* str.splitlines, and str.join with a space
RECURSIVE splitlines(_)
splitlines(s) ==
    IF s = <<>> THEN <<>>
    ELSE LET i == find(s, "\n")
         IN IF i = 0 THEN <<s>>
            ELSE <<SubSeq(s, 1, i - 1)>> \o splitlines(SubSeq(s, i + 1, Len(s)))
RECURSIVE join(_)
join(lines) ==
    IF lines = <<>> THEN <<>>
    ELSE IF Len(lines) = 1 THEN lines[1]
    ELSE lines[1] \o <<" ">> \o join(Tail(lines))

\* json.loads: a recursive descent over the tokens.  Each Parse operator
\* returns the index after what it read, 0 when the text is not JSON.
SkipWsNever(s, i) == i
RECURSIVE SkipWs(_, _)
SkipWs(s, i) == IF i <= Len(s) /\ IsWs(s[i]) THEN SkipWs(s, i + 1) ELSE i
RECURSIVE ParseValue(_, _)
RECURSIVE ParseMembers(_, _)
RECURSIVE ParseElements(_, _)
ParseValue(s, i) ==
    LET j == SkipWs(s, i)
    IN IF j > Len(s) THEN 0
       ELSE IF s[j] \in {"1", "null"} THEN j + 1
       ELSE IF s[j] = "{"
       THEN LET k == SkipWs(s, j + 1)
            IN IF k <= Len(s) /\ s[k] = "}" THEN k + 1 ELSE ParseMembers(s, k)
       ELSE IF s[j] = "["
       THEN LET k == SkipWs(s, j + 1)
            IN IF k <= Len(s) /\ s[k] = "]" THEN k + 1 ELSE ParseElements(s, k)
       ELSE 0
ParseMembers(s, i) ==
    IF i > Len(s) THEN 0
    ELSE LET after == IF s[i] = "P" THEN i + 1
                      ELSE IF s[i] = "K" THEN ParseValue(s, i + 1)
                      ELSE 0
             k == SkipWs(s, after)
         IN IF after = 0 \/ k > Len(s) THEN 0
            ELSE IF s[k] = "," THEN ParseMembers(s, SkipWs(s, k + 1))
            ELSE IF s[k] = "}" THEN k + 1
            ELSE 0
ParseElements(s, i) ==
    LET after == ParseValue(s, i)
        k == SkipWs(s, after)
    IN IF after = 0 \/ k > Len(s) THEN 0
       ELSE IF s[k] = "," THEN ParseElements(s, SkipWs(s, k + 1))
       ELSE IF s[k] = "]" THEN k + 1
       ELSE 0
\* The decoded value is kept as the tokens of the text without its
\* whitespace; raises says JSONDecodeError.
loads(s) ==
    LET e == ParseValue(s, 1)
    IN IF e # 0 /\ SkipWs(s, e) > Len(s)
       THEN [raises |-> FALSE, val |-> SelectSeq(s, LAMBDA c : ~IsWs(c))]
       ELSE [raises |-> TRUE, val |-> <<>>]

\* Python None, which is also what json.loads gives for the text null.
None == <<"null">>

\* Lines 326-331 of parse_receipt_json: the opening fence line and a closing
\* fence are removed.
KeepClosingFence(json_str) == json_str
StripClosingFence(json_str) ==
    IF endswith(json_str, "fence")
    THEN strip(SubSeq(json_str, 1, rfind(json_str, "fence") - 1))
    ELSE json_str
StripFence(json_str) ==
    IF startswith(json_str, "fence")
    THEN LET first_newline == find(json_str, "\n")
             rest == IF first_newline # 0
                     THEN SubSeq(json_str, first_newline + 1, Len(json_str))
                     ELSE json_str
         IN StripClosingFence(rest)
    ELSE json_str

\* Lines 337-341: a brace is put before the first line and after the last
\* line when it is not there.
RepairFirst(lines) ==
    IF ~startswith(strip(lines[1]), "{")
    THEN [lines EXCEPT ![1] = <<"{">> \o @] ELSE lines
LeaveLast(lines) == lines
RepairLast(lines) ==
    IF ~endswith(strip(lines[Len(lines)]), "}")
    THEN [lines EXCEPT ![Len(lines)] = @ \o <<"}">>] ELSE lines

\* parse_receipt_json: the decoded value, None when an exception was caught.
\* tries counts the calls of json.loads.
Decode(receipt_json_str) ==
    LET json_str == StripFence(strip(receipt_json_str))
        strict == loads(json_str)
    IN IF ~strict.raises THEN [val |-> strict.val, tries |-> 1]
       ELSE LET lines == SelectSeq(splitlines(json_str),
                                   LAMBDA line : strip(line) # <<>>)
            IN IF lines = <<>> THEN [val |-> None, tries |-> 1]
               ELSE LET compact_json == join(RepairLast(RepairFirst(lines)))
                        again == loads(compact_json)
                    IN [val |-> IF again.raises THEN None ELSE again.val,
                        tries |-> 2]
parse_receipt_json(receipt_json_str) == Decode(receipt_json_str).val

IsMapping(val) == startswith(val, "{")
Falsy(val) == val \in {None, <<"{", "}">>, <<"[", "]">>}
\* The accessors (extract_receipt_data and the others) call .get on a value
\* that is truthy: they raise on a value that is not a mapping.
AccessorRaises(val) == val # None /\ ~Falsy(val) /\ ~IsMapping(val)
\* The kind of model output a text is for the pipeline (see Raw).
KindOf(receipt_json_str) ==
    LET val == parse_receipt_json(receipt_json_str)
    IN IF receipt_json_str = <<>> THEN "empty"
       ELSE IF val = None THEN "garbage"
       ELSE IF IsMapping(val) \/ Falsy(val) THEN "dict"
       ELSE "nondict"

\* main_aoai.py, parse_receipt_json: str.split on the newline (empty pieces
\* are kept, there is always one piece), the first and the last piece are
\* dropped, the rest is joined with newlines and parsed; only JSONDecodeError
\* is caught.
RECURSIVE split(_)
split(s) ==
    LET i == find(s, "\n")
    IN IF i = 0 THEN <<s>>
       ELSE <<SubSeq(s, 1, i - 1)>> \o split(SubSeq(s, i + 1, Len(s)))
RECURSIVE joinlines(_)
joinlines(lines) ==
    IF lines = <<>> THEN <<>>
    ELSE IF Len(lines) = 1 THEN lines[1]
    ELSE lines[1] \o <<"\n">> \o joinlines(Tail(lines))
parse_receipt_json_aoai(receipt_json_str) ==
    LET lines == split(strip(receipt_json_str))
        json_str == joinlines(SubSeq(lines, 2, Len(lines) - 1))
        receipt_data == loads(json_str)
    IN IF receipt_data.raises THEN None ELSE receipt_data.val

\* JSON values, without whitespace, and the texts that lay them out with a
\* separator between the tokens.
JsonObjects ==
    {<<"{", "}">>,
     <<"{", "P", "}">>,
     <<"{", "P", ",", "P", "}">>,
     <<"{", "K", "[", "1", "]", "}">>,
     <<"{", "K", "{", "P", "}", "}">>,
     <<"{", "K", "{", "}", ",", "P", "}">>,
     <<"{", "K", "[", "{", "P", "}", "]", ",", "K", "[", "]", "}">>}
JsonOthers ==
    {<<"1">>, <<"null">>, <<"[", "]">>, <<"[", "1", "]">>, <<"[", "{", "P", "}", "]">>}
JsonValues == JsonObjects \cup JsonOthers
Separators == {<<>>, <<" ">>, <<"\n">>}
Paddings == {<<>>, <<" ">>, <<"\n">>, <<"\n", " ">>}
RECURSIVE Lay(_, _)
Lay(v, sep) ==
    IF Len(v) <= 1 THEN v ELSE <<Head(v)>> \o sep \o Lay(Tail(v), sep)
RECURSIVE TextsOfLen(_)
TextsOfLen(n) ==
    IF n = 0 THEN {<<>>}
    ELSE {Append(t, c) : t \in TextsOfLen(n - 1), c \in Tokens}
AnyTexts == UNION {TextsOfLen(n) : n \in 0 .. MaxTextLen}

\* ------------------------------------------------------------ ledger
\* A worksheet is the sequence of its data rows.  A row keeps the UserID
\* cell, the identifier cell, and lang: which model output the record written
\* to the other cells came from.  The identifier cell reads back as the value
\* that was appended: receipt_data.get("ReceiptID", "").
CellOf(i) == IF i = NoId THEN "" ELSE i
Row(user, data, children) ==
    [user |-> user, id |-> CellOf(data.id), lang |-> data.lang, items |-> children]

\* str(row.get("UserID", "")) == user_id and str(row.get(key, "")) == value
row_matches(row, user, value) == str(row.user) = user /\ str(row.id) = value
row_exists(ws, user, value) ==
    \E i \in 1 .. Len(ws) : row_matches(ws[i], user, value)

\* SheetsStorage.receipt_exists / ticket_exists: "T", "F", or "raise" when
\* the worksheet read fails.
receipt_exists(ws, user, receipt_id, fails) ==
    IF ~IdTruthy(receipt_id) THEN "F"
    ELSE IF fails THEN "raise"
    ELSE IF row_exists(ws, user, receipt_id) THEN "T" ELSE "F"
ticket_exists(ws, user, ticket_id, fails) ==
    IF ~IdTruthy(ticket_id) THEN "F"
    ELSE IF fails THEN "raise"
    ELSE IF row_exists(ws, user, ticket_id) THEN "T" ELSE "F"
\* SheetsStorage defines no hotel_exists, attraction_exists, store_hotel or
\* store_attraction: the attribute lookup raises AttributeError.
hotel_exists(user, hotel_id) == "raise"
attraction_exists(user, attraction_id) == "raise"

\* check_if_*_exists of main.py: a boolean, exceptions caught.
check_if_receipt_exists_unguarded(ws, user, receipt_id, fails) ==
    ~fails /\ row_exists(ws, user, CellOf(receipt_id))
check_if_receipt_exists(ws, user, receipt_id, fails) ==
    IF ~IdTruthy(receipt_id) THEN FALSE
    ELSE receipt_exists(ws, user, receipt_id, fails) = "T"
check_if_ticket_exists(ws, user, ticket_id, fails) ==
    IF ~IdTruthy(ticket_id) THEN FALSE
    ELSE ticket_exists(ws, user, ticket_id, fails) = "T"
check_if_hotel_exists(user, hotel_id) ==
    IF ~IdTruthy(hotel_id) THEN FALSE
    ELSE hotel_exists(user, hotel_id) = "T"
check_if_attraction_exists(user, attraction_id) ==
    IF ~IdTruthy(attraction_id) THEN FALSE
    ELSE attraction_exists(user, attraction_id) = "T"

\* SheetsStorage.store_receipt / store_ticket: the worksheet after the call,
\* and whether the call raised (an empty record, or a failed append_row).
store_receipt_upsert(ws, user, receipt_data, items, fails) ==
    IF ~Truthy(receipt_data) \/ fails THEN [raises |-> TRUE, ws |-> ws]
    ELSE LET new == Row(user, receipt_data, items)
         IN IF \E k \in 1 .. Len(ws) : ws[k].user = user /\ ws[k].id = new.id
            THEN [raises |-> FALSE,
                  ws |-> [k \in 1 .. Len(ws) |->
                             IF ws[k].user = user /\ ws[k].id = new.id
                             THEN new ELSE ws[k]]]
            ELSE [raises |-> FALSE, ws |-> Append(ws, new)]
store_receipt(ws, user, receipt_data, items, fails) ==
    IF ~Truthy(receipt_data) \/ fails THEN [raises |-> TRUE, ws |-> ws]
    ELSE [raises |-> FALSE, ws |-> Append(ws, Row(user, receipt_data, items))]
store_ticket(ws, user, ticket_data, segments, fails) ==
    IF ~Truthy(ticket_data) \/ fails THEN [raises |-> TRUE, ws |-> ws]
    ELSE [raises |-> FALSE, ws |-> Append(ws, Row(user, ticket_data, segments))]

\* add_* of main.py: the worksheet after the call; every exception is caught.
\* The ledger is the pair of worksheets.
add_receipt(ledger, user, receipt_data, items, fails) ==
    IF ~IsMap(receipt_data) THEN ledger
    ELSE <<store_receipt(ledger[1], user, receipt_data, items, fails).ws, ledger[2]>>
add_ticket(ledger, user, ticket_data, segments, fails) ==
    IF ~IsMap(ticket_data) THEN ledger
    ELSE IF ~IdTruthy(ticket_data.id) THEN ledger
    ELSE <<ledger[1], store_ticket(ledger[2], user, ticket_data, segments, fails).ws>>
\* add_hotel, add_attraction: store_hotel / store_attraction do not exist, the
\* AttributeError is caught and nothing is written.
add_hotel(ledger, user, hotel_data, room_details) == ledger
add_attraction(ledger, user, attraction_data) == ledger

\* Whether the call reaches the worksheet, where a failure of the remote
\* spreadsheet can happen.
ExistsReachesSheet(v, id) == v \in {"Receipt", "Ticket"} /\ IdTruthy(id)
StoreReachesSheet(v, data) ==
    /\ v \in {"Receipt", "Ticket"}
    /\ Truthy(data) /\ IsMap(data)
    /\ v = "Ticket" => IdTruthy(data.id)

\* SheetsStorage._delete_rows_by_user: the indices of the rows of the user
\* are collected in ascending order, then the rows are deleted one call at a
\* time, last index first.  done is the number of delete calls made: all of
\* them unless a call raised.
rows_to_delete(ws, user) == {k \in 1 .. Len(ws) : ws[k].user = user}
delete_rows(ws, k) ==
    IF k \in 1 .. Len(ws)
    THEN SubSeq(ws, 1, k - 1) \o SubSeq(ws, k + 1, Len(ws))
    ELSE ws
Min(S) == CHOOSE x \in S : \A y \in S : x <= y
Max(S) == CHOOSE x \in S : \A y \in S : x >= y
RECURSIVE DeleteAscending(_, _, _)
DeleteAscending(ws, idxs, done) ==
    IF idxs = {} \/ done = 0 THEN ws
    ELSE DeleteAscending(delete_rows(ws, Min(idxs)), idxs \ {Min(idxs)}, done - 1)
RECURSIVE DeleteReversed(_, _, _)
DeleteReversed(ws, idxs, done) ==
    IF idxs = {} \/ done = 0 THEN ws
    ELSE DeleteReversed(delete_rows(ws, Max(idxs)), idxs \ {Max(idxs)}, done - 1)
delete_rows_ascending(ws, user, done) ==
    DeleteAscending(ws, rows_to_delete(ws, user), done)
delete_rows_partly(ws, user, done) ==
    DeleteReversed(ws, rows_to_delete(ws, user), done)
delete_rows_by_user(ws, user) ==
    delete_rows_partly(ws, user, Len(ws))

\* ------------------------------------------------------------- state
VARIABLES
    receipts_ws,  \* SheetsStorage.receipts_ws: the rows of the Receipts sheet
    tickets_ws,   \* SheetsStorage.tickets_ws: the rows of the Tickets sheet
    loop,         \* the run that holds the event loop, 0 when none does
    pc,           \* where each run is in handle_callback
    run,          \* the locals of each run
    files,        \* the runs whose input_image_path exists on disk
    text,         \* the text event handled in the last step, if any
    dec,          \* the last call of parse_receipt_json on a text
    acc,          \* the last call of an accessor on a decoded object
    aoai,         \* main_aoai.py: the Firebase receipts and the last image event
    batch         \* the events of one webhook call and how far the loop got
vars ==
    <<receipts_ws, tickets_ws, loop, pc, run, files, text, dec, acc, aoai, batch>>

\* No text was decoded yet.
NoDec ==
    [mode |-> "none", src |-> <<>>, text |-> <<>>, out |-> <<>>, tries |-> 0,
     tag |-> FALSE, place |-> "-", close |-> "-", lead |-> FALSE, trail |-> FALSE]

\* No accessor was called yet.
NoAcc ==
    [fn |-> "none", variant |-> "-", pv |-> Missing, cv |-> Missing,
     primary |-> JNull, children |-> EmptyList]

\* main_aoai.py before any event: db is the set of the keys under the
\* Receipts path of the user.
NoAoai ==
    [db |-> {}, events |-> 0, text |-> <<>>, parsed |-> <<>>, receipt |-> Absent,
     out |-> "none", checked |-> FALSE, stored |-> FALSE]

\* No webhook call with a batch of events arrived yet.  log holds, for each
\* event the loop reached, its type and how it ended.
NoBatch == [events |-> <<>>, log |-> <<>>, status |-> "none"]

\* No text event was handled in the last step.
NoText == [cmd |-> "none", user |-> "-", out |-> "-", removed |-> 0]

NoReply == [kind |-> "none", dup |-> FALSE, lang |-> "-", items |-> "-"]
FailReply(kind) == [kind |-> kind, dup |-> FALSE, lang |-> "-", items |-> "-"]
InitRun ==
    [user |-> "-",
     origTop |-> "unset", populated |-> {}, variant |-> "unset", prim |-> Absent,
     items |-> "-", twTop |-> "unset", tw |-> Absent, twItems |-> "-",
     checkV |-> "none", checkId |-> NoId, checkRes |-> "none",
     addV |-> "none", addRec |-> Absent, addItems |-> "-", appended |-> FALSE,
     faults |-> {}, reply |-> NoReply]

\* Once the reply is awaited, or an exception leaves the handler, no local of
\* the run is read again.
Shrink(rn) == InitRun

Init ==
    /\ receipts_ws = <<>>
    /\ tickets_ws = <<>>
    /\ loop = 0
    /\ pc = [r \in Runs |-> "idle"]
    /\ run = [r \in Runs |-> InitRun]
    /\ files = {}
    /\ text = NoText
    /\ dec = NoDec
    /\ acc = NoAcc
    /\ aoai = NoAoai
    /\ batch = NoBatch

\* A run is resumed only when no other run holds the loop.
CanRun(r) == loop \in {0, r}

\* The existence check and the store of one branch are consecutive blocking
\* calls: no await lies between them, the run keeps the loop.
LoopAfterCheckAwaited(r) == 0
LoopAfterCheck(r) == r

\* The record and children handed to add_X, and those of the flex message
\* that is appended to reply_messages.
StoredRecordOriginal(rn) == [data |-> rn.prim, children |-> rn.items]
StoredRecord(rn) == [data |-> rn.tw, children |-> rn.twItems]
RenderedRecord(rn) == [data |-> rn.tw, children |-> rn.twItems]

\* if check_if_X_exists(...): the duplicate notice, else: add_X(...).
NextAfterCheckAlwaysStore(res) == "store"
NextAfterCheck(res) == IF res THEN "render" ELSE "store"

\* reply_messages starts with the duplicate notice exactly when the existence
\* check returned true.
DuplicateNoticeNever(res) == FALSE
DuplicateNotice(res) == res = "T"

\* Dispatch on the branch.
CheckExists(v, user, id, fails) ==
    CASE v = "Receipt" -> check_if_receipt_exists(receipts_ws, user, id, fails)
      [] v = "Ticket" -> check_if_ticket_exists(tickets_ws, user, id, fails)
      [] v = "Hotel" -> check_if_hotel_exists(user, id)
      [] v = "Attraction" -> check_if_attraction_exists(user, id)

\* The webhook call reaches await get_message_content.
Receive(r, u, alone) ==
    /\ text' = NoText
    /\ UNCHANGED <<dec, acc, aoai, batch>>
    /\ loop = 0
    /\ pc[r] = "idle"
    /\ alone => \A q \in Runs : pc[q] \in {"idle", "done", "crashed"}
    /\ run' = [run EXCEPT ![r] = [InitRun EXCEPT !.user = u]]
    /\ pc' = [pc EXCEPT ![r] = "fetch"]
    /\ UNCHANGED <<receipts_ws, tickets_ws, loop, files>>

\* get_message_content or PIL.Image.open raises: nothing was written yet.
FetchFail(r) ==
    /\ text' = NoText
    /\ UNCHANGED <<dec, acc, aoai, batch>>
    /\ loop = 0
    /\ pc[r] = "fetch"
    /\ pc' = [pc EXCEPT ![r] = "crashed"]
    /\ run' = [run EXCEPT ![r] = Shrink(run[r])]
    /\ UNCHANGED <<receipts_ws, tickets_ws, loop, files>>

\* Lines 808-822, and the decoding of the original output (828, 842-845,
\* whose results are read from line 850 on).
Vision(r, raw) ==
    /\ text' = NoText
    /\ UNCHANGED <<dec, acc, aoai, batch>>
    /\ CanRun(r)
    /\ pc[r] = "fetch"
    /\ loop' = r
    /\ files' = files \cup {r}
    /\ IF raw.kind = "empty"
       THEN /\ run' = [run EXCEPT ![r].reply = FailReply("NoResult")]
            /\ pc' = [pc EXCEPT ![r] = "send"]
       ELSE LET parsed == ParseOutcome(raw)
                ex == Extract(parsed)
                v == HandledVariant(ex)
            IN /\ run' = [run EXCEPT
                     ![r].origTop = parsed.top,
                     ![r].populated = IF parsed.top = "dict"
                                      THEN {k \in VariantSet : Truthy(ex[k])} ELSE {},
                     ![r].variant = IF parsed.top = "dict" THEN v ELSE "unset",
                     ![r].prim = IF parsed.top = "dict" /\ v # "None"
                                 THEN ex[v] ELSE Absent,
                     ![r].items = ExtractKey(parsed, "Receipt").children]
               /\ pc' = [pc EXCEPT ![r] = "translate"]
    /\ UNCHANGED <<receipts_ws, tickets_ws>>

\* An exception leaves handle_callback: no reply, no cleanup.
Crash(r) ==
    /\ pc' = [pc EXCEPT ![r] = "crashed"]
    /\ run' = [run EXCEPT ![r] = Shrink(run[r])]
    /\ loop' = 0

\* Lines 824-889 up to the existence check of the branch taken.
Translate(r, twraw) ==
    /\ text' = NoText
    /\ UNCHANGED <<dec, acc, aoai, batch>>
    /\ CanRun(r)
    /\ pc[r] = "translate"
    /\ UNCHANGED <<receipts_ws, tickets_ws, files>>
    /\ LET twparsed == ParseOutcome(twraw)
           v == run[r].variant
           t == Extract(twparsed)[v]
           c == ExtractKey(twparsed, "Receipt").children
           Fail(kind) ==
               /\ run' = [run EXCEPT ![r].twTop = twparsed.top,
                                     ![r].reply = FailReply(kind)]
               /\ pc' = [pc EXCEPT ![r] = "send"]
               /\ loop' = r
       IN IF run[r].origTop = "none" THEN Fail("DecodeFailed")
          ELSE IF twparsed.top = "none" THEN Fail("TwDecodeFailed")
          ELSE IF run[r].origTop = "nondict" \/ twparsed.top = "nondict"
          THEN Crash(r)
          ELSE IF v = "None" THEN Fail("NoVariantMatched")
          ELSE IF t = Absent
          THEN /\ run' = [run EXCEPT ![r].twTop = twparsed.top, ![r].tw = t,
                                     ![r].reply = FailReply("ReconcileFailed")]
               /\ pc' = [pc EXCEPT ![r] = "send"]
               /\ loop' = r
          ELSE IF ~IsMap(run[r].prim)
          THEN Crash(r)
          ELSE IF v # "Receipt" /\ ~IdTruthy(run[r].prim.id)
          THEN /\ run' = [run EXCEPT ![r].twTop = twparsed.top, ![r].tw = t,
                                     ![r].reply = FailReply("MissingIdentifier")]
               /\ pc' = [pc EXCEPT ![r] = "send"]
               /\ loop' = r
          ELSE /\ run' = [run EXCEPT ![r].twTop = twparsed.top, ![r].tw = t,
                                     ![r].twItems = c]
               /\ pc' = [pc EXCEPT ![r] = "check"]
               /\ loop' = r

\* if check_if_X_exists(user_id, X_id): ... else: ...
Check(r, fails) ==
    /\ text' = NoText
    /\ UNCHANGED <<dec, acc, aoai, batch>>
    /\ CanRun(r)
    /\ pc[r] = "check"
    /\ LET v == run[r].variant
           res == CheckExists(v, run[r].user, run[r].prim.id, fails)
       IN /\ fails => ExistsReachesSheet(v, run[r].prim.id)
          /\ run' = [run EXCEPT ![r].checkV = v,
                                ![r].checkId = run[r].prim.id,
                                ![r].checkRes = IF res THEN "T" ELSE "F",
                                ![r].faults = IF fails THEN {"exists"} ELSE {}]
          /\ pc' = [pc EXCEPT ![r] = NextAfterCheck(res)]
    /\ loop' = LoopAfterCheck(r)
    /\ UNCHANGED <<receipts_ws, tickets_ws, files>>

\* add_X(user_id, tw_X, tw_children, image_path=input_image_path)
Store(r, fails) ==
    /\ text' = NoText
    /\ UNCHANGED <<dec, acc, aoai, batch>>
    /\ CanRun(r)
    /\ pc[r] = "store"
    /\ LET v == run[r].variant
           rec == StoredRecord(run[r])
           u == run[r].user
           old == <<receipts_ws, tickets_ws>>
           new == CASE v = "Receipt" -> add_receipt(old, u, rec.data, rec.children, fails)
                    [] v = "Ticket" -> add_ticket(old, u, rec.data, rec.children, fails)
                    [] v = "Hotel" -> add_hotel(old, u, rec.data, rec.children)
                    [] v = "Attraction" -> add_attraction(old, u, rec.data)
       IN /\ fails => StoreReachesSheet(v, rec.data)
          /\ receipts_ws' = new[1]
          /\ tickets_ws' = new[2]
          /\ run' = [run EXCEPT ![r].addV = v, ![r].addRec = rec.data,
                                ![r].addItems = rec.children,
                                ![r].appended = (new # old),
                                ![r].faults = @ \cup (IF fails THEN {"store"} ELSE {})]
    /\ pc' = [pc EXCEPT ![r] = "render"]
    /\ loop' = r
    /\ UNCHANGED files

\* The flex messages are built and reply_messages is complete; the flex
\* builder calls .get on the translated record and may raise.
Render(r, fails) ==
    /\ text' = NoText
    /\ UNCHANGED <<dec, acc, aoai, batch>>
    /\ CanRun(r)
    /\ pc[r] = "render"
    /\ LET rec == RenderedRecord(run[r])
       IN IF fails \/ ~IsMap(rec.data)
          THEN Crash(r)
          ELSE /\ run' = [run EXCEPT ![r].reply =
                            [kind |-> "Rendered",
                             dup |-> DuplicateNotice(run[r].checkRes),
                             lang |-> rec.data.lang, items |-> rec.children]]
               /\ pc' = [pc EXCEPT ![r] = "send"]
               /\ loop' = r
    /\ UNCHANGED <<receipts_ws, tickets_ws, files>>

\* await async_line_bot_api.reply_message(...): the run gives up the loop.
AwaitReply(r) ==
    /\ text' = NoText
    /\ UNCHANGED <<dec, acc, aoai, batch>>
    /\ CanRun(r)
    /\ pc[r] = "send"
    /\ pc' = [pc EXCEPT ![r] = "reply"]
    /\ run' = [run EXCEPT ![r] = Shrink(run[r])]
    /\ loop' = 0
    /\ UNCHANGED <<receipts_ws, tickets_ws, files>>

\* The reply returned: os.remove(input_image_path), return.
ReplyDone(r) ==
    /\ text' = NoText
    /\ UNCHANGED <<dec, acc, aoai, batch>>
    /\ loop = 0
    /\ pc[r] = "reply"
    /\ files' = files \ {r}
    /\ pc' = [pc EXCEPT ![r] = "done"]
    /\ UNCHANGED <<receipts_ws, tickets_ws, loop, run>>

\* reply_message raised: the exception leaves handle_callback.
ReplyFail(r) ==
    /\ text' = NoText
    /\ UNCHANGED <<dec, acc, aoai, batch>>
    /\ loop = 0
    /\ pc[r] = "reply"
    /\ pc' = [pc EXCEPT ![r] = "crashed"]
    /\ UNCHANGED <<receipts_ws, tickets_ws, loop, run, files>>

ClearFaults == {"none", "snapshot", "receipts", "tickets"}

\* A text event of user u: get_user_snapshot is called first, for every
\* text.  Neither call is inside a try; the handler gives up the loop only at
\* its reply.
\* The command that clears the ledger: clear_user_data deletes the rows of
\* the user from the Receipts sheet, then from the Tickets sheet.  fail names
\* the call that raises, done the delete calls that succeeded before it.
ClearCommand(u, fail, done) ==
    /\ loop = 0
    /\ UNCHANGED <<loop, pc, run, files, dec, acc, aoai, batch>>
    /\ LET n == Len(receipts_ws) + Len(tickets_ws)
           Out(o) == [cmd |-> "clear", user |-> u, out |-> o,
                      removed |-> n - (Len(receipts_ws') + Len(tickets_ws'))]
       IN CASE fail = "none" ->
                 /\ done = 0
                 /\ receipts_ws' = delete_rows_by_user(receipts_ws, u)
                 /\ tickets_ws' = delete_rows_by_user(tickets_ws, u)
                 /\ text' = Out("replied")
            [] fail = "snapshot" ->
                 /\ done = 0
                 /\ UNCHANGED <<receipts_ws, tickets_ws>>
                 /\ text' = Out("raised")
            [] fail = "receipts" ->
                 /\ done = 0 \/ done < Cardinality(rows_to_delete(receipts_ws, u))
                 /\ receipts_ws' = delete_rows_partly(receipts_ws, u, done)
                 /\ UNCHANGED tickets_ws
                 /\ text' = Out("raised")
            [] fail = "tickets" ->
                 /\ done = 0 \/ done < Cardinality(rows_to_delete(tickets_ws, u))
                 /\ receipts_ws' = delete_rows_by_user(receipts_ws, u)
                 /\ tickets_ws' = delete_rows_partly(tickets_ws, u, done)
                 /\ text' = Out("raised")

\* Any other text (help, a question): the snapshot is read, nothing is
\* written.
TextQuestion(u, fails) ==
    /\ loop = 0
    /\ UNCHANGED <<receipts_ws, tickets_ws, loop, pc, run, files, dec, acc, aoai,
                   batch>>
    /\ text' = [cmd |-> "ask", user |-> u,
                out |-> IF fails THEN "raised" ELSE "replied", removed |-> 0]

Next ==
    \/ \E r \in Runs, u \in Users : Receive(r, u, FALSE)
    \/ \E r \in Runs : FetchFail(r)
    \/ \E r \in Runs, raw \in OrigOutputs : Vision(r, raw)
    \/ \E r \in Runs, raw \in TwOutputs : Translate(r, raw)
    \/ \E r \in Runs, fails \in BOOLEAN : Check(r, fails)
    \/ \E r \in Runs, fails \in BOOLEAN : Store(r, fails)
    \/ \E r \in Runs, fails \in BOOLEAN : Render(r, fails)
    \/ \E r \in Runs : AwaitReply(r)
    \/ \E r \in Runs : ReplyDone(r)
    \/ \E r \in Runs : ReplyFail(r)
    \/ \E u \in Users, fail \in ClearFaults, done \in 0 .. MaxPartial :
          ClearCommand(u, fail, done)
    \/ \E u \in Users, fails \in BOOLEAN : TextQuestion(u, fails)

Spec == Init /\ [][Next]_vars

\* Submissions processed one after another, no collaborator call failing.
NextSeq ==
    \/ \E r \in Runs, u \in Users : Receive(r, u, TRUE)
    \/ \E r \in Runs, raw \in OrigOutputs : Vision(r, raw)
    \/ \E r \in Runs, raw \in TwOutputs : Translate(r, raw)
    \/ \E r \in Runs : Check(r, FALSE)
    \/ \E r \in Runs : Store(r, FALSE)
    \/ \E r \in Runs : Render(r, FALSE)
    \/ \E r \in Runs : AwaitReply(r)
    \/ \E r \in Runs : ReplyDone(r)

SpecSeq == Init /\ [][NextSeq]_vars

\* ------------------------------------------------------------ decoder
\* parse_receipt_json applied once to a text; the pipeline is left alone.
Decoded(mode, v, t) ==
    [NoDec EXCEPT !.mode = mode, !.src = v, !.text = t,
                  !.out = parse_receipt_json(t), !.tries = Decode(t).tries]
pipeline_vars == <<receipts_ws, tickets_ws, loop, pc, run, files, text>>

\* A JSON value laid out with a separator, whitespace before and after.
DecodePlain(v, sep, before, after) ==
    /\ dec = NoDec
    /\ dec' = Decoded("plain", v, before \o Lay(v, sep) \o after)
    /\ UNCHANGED <<pipeline_vars, acc, aoai, batch>>

\* A JSON object in a fenced block: the opening fence with or without a
\* language tag, the object on the next line or on the fence line, the
\* closing fence on its own line, right after the object, or missing.
Places == {"nextline", "sameline"}
Closings == {"newline", "inline", "missing"}
Fenced(t, tag, place, close) ==
    <<"fence">> \o (IF tag THEN <<"json">> ELSE <<>>)
    \o (IF place = "nextline" THEN <<"\n">> ELSE <<>>)
    \o t
    \o (CASE close = "newline" -> <<"\n", "fence">>
          [] close = "inline" -> <<"fence">>
          [] close = "missing" -> <<>>)
DecodeFenced(v, sep, tag, place, close) ==
    /\ dec = NoDec
    /\ dec' = [Decoded("fenced", v, Fenced(Lay(v, sep), tag, place, close))
                  EXCEPT !.tag = tag, !.place = place, !.close = close]
    /\ UNCHANGED <<pipeline_vars, acc, aoai, batch>>

\* A JSON object whose first brace, last brace or both were removed.
Truncated(t, lead, trail) ==
    SubSeq(t, IF lead THEN 2 ELSE 1, IF trail THEN Len(t) - 1 ELSE Len(t))
DecodeTruncated(v, sep, lead, trail) ==
    /\ lead \/ trail
    /\ dec = NoDec
    /\ dec' = [Decoded("truncated", v, Truncated(Lay(v, sep), lead, trail))
                  EXCEPT !.lead = lead, !.trail = trail]
    /\ UNCHANGED <<pipeline_vars, acc, aoai, batch>>

\* Any text.
DecodeAny(t) ==
    /\ dec = NoDec
    /\ dec' = Decoded("any", <<>>, t)
    /\ UNCHANGED <<pipeline_vars, acc, aoai, batch>>

NextDecode ==
    \/ \E v \in JsonValues, sep \in Separators, before \in Paddings, after \in Paddings :
          DecodePlain(v, sep, before, after)
    \/ \E v \in JsonObjects, sep \in Separators, tag \in BOOLEAN,
          place \in Places, close \in Closings :
          DecodeFenced(v, sep, tag, place, close)
    \/ \E v \in JsonObjects, sep \in Separators, lead \in BOOLEAN, trail \in BOOLEAN :
          DecodeTruncated(v, sep, lead, trail)
    \/ \E t \in AnyTexts : DecodeAny(t)

SpecDecode == Init /\ [][NextDecode]_vars

\* ---------------------------------------------------------- accessor
\* One call of an accessor on a decoded object that holds pv under the
\* variant key and cv under the sibling key.  fn is "main" for the four
\* accessors of main.py and "aoai" for extract_receipt_data of main_aoai.py.
Access(v, pv, cv) ==
    /\ acc = NoAcc
    /\ SiblingOf(v) = "-" => cv = Missing
    /\ acc' = [fn |-> "main", variant |-> v, pv |-> pv, cv |-> cv,
               primary |-> ExtractPrimary(pv),
               children |-> IF SiblingOf(v) = "-" THEN EmptyList
                            ELSE ExtractChildren(cv)]
    /\ UNCHANGED <<pipeline_vars, dec, aoai, batch>>
AccessAoai(pv, cv) ==
    /\ acc = NoAcc
    /\ acc' = [fn |-> "aoai", variant |-> "Receipt", pv |-> pv, cv |-> cv,
               primary |-> ExtractPrimary(pv),
               children |-> ExtractChildrenAoai(cv)]
    /\ UNCHANGED <<pipeline_vars, dec, aoai, batch>>

NextAccess ==
    \/ \E v \in VariantSet, pv \in JVals, cv \in JVals : Access(v, pv, cv)
    \/ \E pv \in JVals, cv \in JVals : AccessAoai(pv, cv)

SpecAccess == Init /\ [][NextAccess]_vars

\* ------------------------------------------------------------- aoai
\* The image branch of handle_callback of main_aoai.py (lines 237-263), one
\* event of one user.  t is the original model output, rec what a decoded
\* non-empty mapping holds under "Receipt", twraw the translated output,
\* fails whether building the flex messages or the reply raises.
\* Firebase: Reference.child raises ValueError for a key that is not a
\* non-empty string; check_if_receipt_exists and add_receipt catch it.
IsKey(i) == i \in {"a", "1"}
AoaiHandle(t, rec, twraw, fails) ==
    LET parsed == parse_receipt_json_aoai(t)
        primary == IF rec.shape = "list" THEN Map(rec.id, rec.lang) ELSE rec
        receipt == IF IsMapping(parsed) /\ ~Falsy(parsed) THEN primary ELSE Absent
        tw == ExtractKey(ParseOutcome(twraw), "Receipt")
        Out(o, c, st) ==
            [db |-> IF st THEN aoai.db \cup {tw.val.id} ELSE aoai.db,
             events |-> aoai.events + 1,
             text |-> t, parsed |-> parsed, receipt |-> receipt,
             out |-> o, checked |-> c, stored |-> st]
        exists == IsKey(receipt.id) /\ receipt.id \in aoai.db
        stores == IsMap(tw.val) /\ IsKey(tw.val.id)
    IN IF AccessorRaises(parsed) \/ tw.raises THEN Out("raised", FALSE, FALSE)
       ELSE IF ~IsMap(receipt) THEN Out("raised", FALSE, FALSE)
       ELSE IF exists
       THEN IF fails \/ ~IsMap(tw.val) THEN Out("raised", TRUE, FALSE)
            ELSE Out("Duplicate", TRUE, FALSE)
       ELSE IF fails \/ ~IsMap(tw.val) THEN Out("raised", TRUE, stores)
            ELSE Out("Rendered", TRUE, stores)

\* The model outputs: a JSON value between two fence lines, as the prompt
\* asks for it, without the fences, and short texts of any kind.
AoaiBlocks(vals) ==
    {Fenced(v, tag, "nextline", close) :
        v \in vals, tag \in BOOLEAN, close \in Closings}
AoaiTexts ==
    AoaiBlocks(JsonOthers \cup {<<"{", "}">>}) \cup JsonValues
    \cup {<<>>, <<"fence">>, <<"fence", "\n", "fence">>, <<"\n">>,
          <<"fence", "json", "\n", "P", "\n", "fence">>}
AoaiObjectTexts ==
    {Fenced(v, TRUE, "nextline", "newline") : v \in JsonObjects \ {<<"{", "}">>}}
AoaiTw == {raw \in TwOutputs : Populated(raw.obj) \subseteq {"Receipt"}}

\* An image whose original output does not decode to a non-empty mapping.
AoaiImageOther(t, twraw) ==
    /\ aoai.events < MaxEvents
    /\ aoai' = AoaiHandle(t, Absent, twraw, FALSE)
    /\ UNCHANGED <<pipeline_vars, dec, acc, batch>>
\* An image whose original output is a non-empty mapping in a fenced block.
AoaiImage(t, rec, twraw, fails) ==
    /\ aoai.events < MaxEvents
    /\ aoai' = AoaiHandle(t, rec, twraw, fails)
    /\ UNCHANGED <<pipeline_vars, dec, acc, batch>>

NextAoai ==
    \/ \E t \in AoaiTexts, twraw \in AoaiTw : AoaiImageOther(t, twraw)
    \/ \E t \in AoaiObjectTexts, rec \in PVals("orig"), twraw \in AoaiTw,
          fails \in BOOLEAN : AoaiImage(t, rec, twraw, fails)

SpecAoai == Init /\ [][NextAoai]_vars

\* ------------------------------------------------------------ batch
\* for event in events: of handle_callback (main.py 709-961), one webhook
\* call.  The ledger is left out: whether an image is stored or found to be a
\* duplicate, the branch ends with the same return.
EventTypes == {"text", "image", "other"}
RECURSIVE SeqsUpTo(_, _)
SeqsUpTo(S, n) ==
    IF n = 0 THEN {<<>>}
    ELSE SeqsUpTo(S, n - 1)
         \cup {Append(q, x) : q \in SeqsUpTo(S, n - 1), x \in S}

\* How the image branch ends for the two model outputs, by the order of its
\* tests: a terminal state of the pipeline, "Completed" for Duplicate and for
\* Stored-and-Rendered, "Raised" when an exception leaves the handler.
TerminalOf(raw, twraw) ==
    LET parsed == ParseOutcome(raw)
        twparsed == ParseOutcome(twraw)
        ex == Extract(parsed)
        v == HandledVariant(ex)
        t == Extract(twparsed)[v]
    IN IF raw.kind = "empty" THEN "NoResult"
       ELSE IF parsed.top = "none" THEN "DecodeFailed"
       ELSE IF twparsed.top = "none" THEN "TwDecodeFailed"
       ELSE IF parsed.top = "nondict" \/ twparsed.top = "nondict" THEN "Raised"
       ELSE IF v = "None" THEN "NoVariantMatched"
       ELSE IF t = Absent THEN "ReconcileFailed"
       ELSE IF ~IsMap(ex[v]) THEN "Raised"
       ELSE IF v # "Receipt" /\ ~IdTruthy(ex[v].id) THEN "MissingIdentifier"
       ELSE IF ~IsMap(t) THEN "Raised"
       ELSE "Completed"

\* Whether the branch of an image event ends with return "OK": every branch
\* but the last one, which falls out of the if-chain to the next event.
ReturnsAfterAlways(kind) == TRUE
ReturnsAfter(kind) == kind # "NoVariantMatched"

\* The webhook call arrives with its events.
BatchArrive(evs) ==
    /\ batch.status = "none"
    /\ evs # <<>>
    /\ batch' = [events |-> evs, log |-> <<>>, status |-> "running"]
    /\ UNCHANGED <<pipeline_vars, dec, acc, aoai>>

\* The event the loop is at.
AtEvent(type) ==
    /\ batch.status = "running"
    /\ Len(batch.log) < Len(batch.events)
    /\ batch.events[Len(batch.log) + 1] = type
Logged(type, kind, status) ==
    [batch EXCEPT !.log = Append(@, [type |-> type, kind |-> kind]),
                  !.status = status]

\* An event that is no message, or a message that is neither text nor image:
\* no reply, the loop goes on.
BatchOther ==
    /\ AtEvent("other")
    /\ batch' = Logged("other", "Skipped", "running")
    /\ UNCHANGED <<pipeline_vars, dec, acc, aoai>>
\* A text event: its reply is awaited and the loop goes on, unless a ledger
\* or model call, or the reply, raises.
BatchText(fails) ==
    /\ AtEvent("text")
    /\ batch' = IF fails THEN Logged("text", "Raised", "raised")
                ELSE Logged("text", "Replied", "running")
    /\ UNCHANGED <<pipeline_vars, dec, acc, aoai>>
\* An image event, with the two model outputs it gets; fails: the reply
\* raises.
BatchImage(raw, twraw, fails) ==
    /\ AtEvent("image")
    /\ LET kind == TerminalOf(raw, twraw)
       IN batch' = IF fails \/ kind = "Raised" THEN Logged("image", "Raised", "raised")
                   ELSE IF ReturnsAfter(kind) THEN Logged("image", kind, "returned")
                   ELSE Logged("image", kind, "running")
    /\ UNCHANGED <<pipeline_vars, dec, acc, aoai>>
\* The loop is through: return None.
BatchEnd ==
    /\ batch.status = "running"
    /\ Len(batch.log) = Len(batch.events)
    /\ batch' = [batch EXCEPT !.status = "finished"]
    /\ UNCHANGED <<pipeline_vars, dec, acc, aoai>>

NextBatch ==
    \/ \E evs \in SeqsUpTo(EventTypes, MaxBatch) : BatchArrive(evs)
    \/ BatchOther
    \/ \E fails \in BOOLEAN : BatchText(fails)
    \/ \E raw \in OrigOutputs, twraw \in TwOutputs, fails \in BOOLEAN :
          BatchImage(raw, twraw, fails)
    \/ BatchEnd

SpecBatch == Init /\ [][NextBatch]_vars

\* ------------------------------------------------------------- claims
\* The ledger of a variant: Hotel and Attraction have no worksheet.
LedgerOf(v) ==
    CASE v = "Receipt" -> receipts_ws
      [] v = "Ticket" -> tickets_ws
      [] OTHER -> <<>>
HasRow(ws, u, i) == \E k \in 1 .. Len(ws) : ws[k].user = u /\ ws[k].id = i
RowsOf(ws, u, i) == {k \in 1 .. Len(ws) : ws[k].user = u /\ ws[k].id = i}
\* The run has been through the store step of its branch.
PastStore(r) == pc[r] \in {"render", "send"} /\ run[r].addV # "none"

\* C1: with submissions processed one after another and no collaborator
\* failing, no worksheet ever holds two rows with the same user and the same
\* identifier.
C1_AtMostOnce ==
    \A v \in {"Receipt", "Ticket"} : \A u \in Users : \A i \in Ids :
        Cardinality(RowsOf(LedgerOf(v), u, i)) <= 1

\* C2: a run calls add_X only after its own check_if_X_exists, for the same
\* variant, its user and the identifier of the original record, returned
\* false; after a check that returned true it never calls add_X.
C2_Gate ==
    \A r \in Runs :
        /\ run[r].addV # "none" =>
              /\ run[r].checkRes = "F"
              /\ run[r].checkV = run[r].addV
              /\ run[r].checkId = run[r].prim.id
        /\ run[r].checkRes = "T" => run[r].addV = "none" /\ pc[r] # "store"
        /\ pc[r] = "store" => run[r].checkRes = "F"
\* C2 witness: a run whose check returned true (a row of an earlier run is
\* in the ledger) is at its reply without having called add_X.
C2_Witness ==
    \E r \in Runs :
        /\ run[r].checkRes = "T" /\ pc[r] = "send" /\ run[r].addV = "none"
        /\ HasRow(LedgerOf(run[r].checkV), run[r].user, run[r].checkId)

\* The original and the translated output of run r both give a Receipt with
\* the non-empty identifier i.
BothReceipt(r, i) ==
    /\ run[r].variant = "Receipt"
    /\ run[r].prim.id = i /\ IdTruthy(i)
    /\ run[r].tw.shape = "map" /\ run[r].tw.id = i
\* C3: with submissions processed one after another and no collaborator
\* failing, a run whose original and translated output both give a Receipt
\* with the identifier id and that is about to store found no row of an
\* earlier submission of (user, id) in the ledger: once a row is stored, every
\* later existence check for (user, id) is true and the resubmission adds no
\* row.
C3_EndToEnd ==
    \A r \in Runs : \A i \in Ids :
        (pc[r] = "store" /\ BothReceipt(r, i)) =>
            ~HasRow(receipts_ws, run[r].user, CellOf(i))

\* C4: a Hotel or Attraction run that passed the duplicate check and whose
\* store did not fail has a ledger row for (user, identifier).
C4_FourVariants ==
    \A r \in Runs :
        (PastStore(r) /\ run[r].variant \in {"Hotel", "Attraction"}
            /\ run[r].tw.shape = "map" /\ run[r].tw.id = run[r].prim.id
            /\ run[r].faults = {})
        => run[r].appended

\* C5: the existence check is false for an empty or missing identifier, for
\* every user, variant and ledger content, whether or not the worksheet can
\* be read; the storage lookups return False without raising.
EmptyIds == {NoId, ""}
C5_EmptyIdNeverExists ==
    /\ \A u \in Users : \A i \in EmptyIds : \A f \in BOOLEAN : \A v \in VariantSet :
          ~CheckExists(v, u, i, f)
    /\ \A u \in Users : \A i \in EmptyIds : \A f \in BOOLEAN :
          /\ receipt_exists(receipts_ws, u, i, f) = "F"
          /\ ticket_exists(tickets_ws, u, i, f) = "F"
    /\ \A r \in Runs :
          (run[r].checkV # "none" /\ ~IdTruthy(run[r].checkId)) => run[r].checkRes = "F"
\* C5 witness: a Receipt run without identifier got false while the ledger
\* holds a row of its user with an empty identifier.
C5_Witness ==
    \E r \in Runs :
        /\ run[r].checkV = "Receipt" /\ ~IdTruthy(run[r].checkId)
        /\ run[r].checkRes = "F"
        /\ HasRow(receipts_ws, run[r].user, "")

\* C6 as stated, at the point it is about: while one run has passed the
\* existence check and has not stored yet, another run suspended at its await
\* can be resumed (and so pass its own check before the first one stores).
C6_Original ==
    \A r \in Runs : \A q \in Runs :
        (r # q /\ pc[r] = "store" /\ pc[q] = "fetch") =>
            ENABLED (\E raw \in OrigOutputs : Vision(q, raw))
\* Where a run is between two awaits, holding the loop.
Sync == {"translate", "check", "store", "render", "send"}
\* C6 (amended): no state has two runs that both passed the existence check
\* with neither having stored; between the check and the store of a run no
\* other run takes a step.
C6_NoRace ==
    \A r \in Runs : \A q \in Runs :
        r # q => ~(pc[r] \in Sync /\ pc[q] \in Sync)
\* C6 witness: a run has passed the check and not stored yet while another
\* run of the same user is suspended at its await.
C6_Witness ==
    \E r \in Runs : \E q \in Runs :
        /\ r # q /\ pc[q] = "fetch" /\ run[q].user = run[r].user
        /\ pc[r] = "store" /\ run[r].checkRes = "F" /\ IdTruthy(run[r].checkId)

\* C7: when a run has ended, by return or by an exception, its temporary
\* image file does not exist.
C7_Cleanup ==
    \A r \in Runs : pc[r] \in {"done", "crashed"} => r \notin files

\* The original of run r has a recognized variant and the translated output
\* is undecodable or has no non-empty primary record of that variant.
BadTranslation(r) ==
    /\ run[r].variant \in VariantSet
    /\ run[r].twTop # "unset"
    /\ run[r].twTop = "none" \/ run[r].tw.shape # "map"
\* C8: when the original has a recognized variant and the translated output
\* is undecodable or has no non-empty primary record of that variant, the run
\* is at a failure reply: it reaches no existence check, store or rendering.
C8_ReconcileFailsSafe ==
    \A r \in Runs :
        BadTranslation(r) =>
            /\ pc[r] = "send"
            /\ run[r].reply.kind \in {"ReconcileFailed", "TwDecodeFailed", "MissingIdentifier"}
            /\ run[r].addV = "none" /\ run[r].checkV = "none"

\* C9: the record and children handed to add_X, the ledger rows, and the
\* record and children of the reply all come from the translated output.
C9_TranslatedOnly ==
    /\ \A r \in Runs :
          /\ run[r].addV # "none" =>
                run[r].addRec.lang = "tw" /\ run[r].addItems = "tw"
          /\ run[r].reply.kind = "Rendered" =>
                run[r].reply.lang = "tw" /\ run[r].reply.items = "tw"
    /\ \A v \in {"Receipt", "Ticket"} : \A k \in 1 .. Len(LedgerOf(v)) :
          LedgerOf(v)[k].lang = "tw" /\ LedgerOf(v)[k].items = "tw"
\* C9 witness: a run stored a row and is at the reply with the record.
C9_Witness ==
    \E r \in Runs :
        /\ run[r].reply.kind = "Rendered" /\ ~run[r].reply.dup
        /\ run[r].appended /\ run[r].prim.shape = "map"

\* The first variant of the fixed order among those with a non-empty record.
FirstPopulated(pop) ==
    IF pop = {} THEN "None"
    ELSE Variants[CHOOSE k \in 1 .. Len(Variants) :
                     /\ Variants[k] \in pop
                     /\ \A j \in 1 .. (k - 1) : Variants[j] \notin pop]
\* C10: the branch taken is the first of Receipt, Ticket, Hotel, Attraction
\* whose original primary record is non-empty, none when there is no such
\* variant; the existence check and the store of the run are those of that
\* branch only.
C10_Priority ==
    \A r \in Runs :
        /\ run[r].variant # "unset" => run[r].variant = FirstPopulated(run[r].populated)
        /\ run[r].checkV \in {"none", FirstPopulated(run[r].populated)}
        /\ run[r].addV \in {"none", FirstPopulated(run[r].populated)}
        /\ {"Receipt", "Ticket"} \subseteq run[r].populated =>
              run[r].checkV # "Ticket" /\ run[r].addV # "Ticket"
\* C10 witness: Receipt and Ticket are both populated and the run checked
\* and stored a Receipt.
C10_Witness ==
    \E r \in Runs :
        /\ {"Receipt", "Ticket"} \subseteq run[r].populated
        /\ run[r].checkV = "Receipt" /\ run[r].addV = "Receipt"

\* The original primary record of run r is a Ticket, Hotel or Attraction
\* mapping without identifier, and the run is past the translation step.
LacksIdentifier(r) ==
    /\ run[r].variant \in {"Ticket", "Hotel", "Attraction"}
    /\ run[r].prim.shape = "map" /\ ~IdTruthy(run[r].prim.id)
    /\ run[r].twTop # "unset"
\* C11: when the original primary record of a Ticket, Hotel or Attraction has
\* no identifier or an empty one, the run is at the missing-identifier reply
\* and has called neither the existence check nor add_X.
C11_MissingIdSurfaced ==
    \A r \in Runs :
        LacksIdentifier(r) =>
            /\ pc[r] = "send" /\ run[r].reply.kind = "MissingIdentifier"
            /\ run[r].checkV = "none" /\ run[r].addV = "none"

\* The fixed failure messages of the image branch.
FailureKinds ==
    {"NoResult", "DecodeFailed", "TwDecodeFailed", "NoVariantMatched",
     "ReconcileFailed", "MissingIdentifier"}
C13_RenderedAfterStored ==
    \A r \in Runs :
        (pc[r] = "send" /\ run[r].reply.kind = "Rendered" /\ ~run[r].reply.dup)
            => run[r].appended

\* C14: no exception of a ledger call made while handling an event leaves the
\* handler: no text event ends with the exception raised to the caller of
\* handle_callback.
C14_FailuresStayLocal == text.out # "raised"

\* The rows of ws that are not rows of user u, in their order.
OthersOf(ws, u) == SelectSeq(ws, LAMBDA row : row.user # u)
\* C15: a clear command of user u that completes leaves no row of u in the
\* Receipts or the Tickets sheet, and leaves the rows of every other user as
\* they were, in the same order.
C15_Step ==
    \A u \in Users :
        ClearCommand(u, "none", 0) =>
            /\ \A k \in 1 .. Len(receipts_ws') : receipts_ws'[k].user # u
            /\ \A k \in 1 .. Len(tickets_ws') : tickets_ws'[k].user # u
            /\ receipts_ws' = OthersOf(receipts_ws, u)
            /\ tickets_ws' = OthersOf(tickets_ws, u)
C16_Scoped ==
    \A v \in {"Receipt", "Ticket"} : \A u \in Users : \A i \in DocIds :
        IdTruthy(i) =>
            (CheckExists(v, u, i, FALSE) <=> HasRow(LedgerOf(v), u, CellOf(i)))

\* C17 as stated: the decoder succeeds on every well-formed JSON text, with
\* whitespace around it or not, and returns what the strict parse returns.
C17_Original ==
    dec.mode = "plain" => dec.out # None /\ dec.out = dec.src
\* C17 (amended): on every well-formed JSON text, with whitespace around it
\* or not, the decoder returns what the strict parse of the text returns,
\* after one call of json.loads; that value is None, the failure signal, for
\* the text null and only for it.
C17_DecodeIdentity ==
    dec.mode = "plain" =>
        /\ dec.out = dec.src /\ dec.tries = 1
        /\ dec.out = None <=> dec.src = <<"null">>
\* C17 witness: an object with a nested list, one token a line, with
\* whitespace before and after, was decoded to itself.
C17_Witness ==
    /\ dec.mode = "plain" /\ dec.out = dec.src
    /\ Len(dec.src) > 6 /\ IsWs(dec.text[1]) /\ IsWs(dec.text[Len(dec.text)])
    /\ \E i \in 2 .. (Len(dec.text) - 1) : dec.text[i] = "\n"

\* C18 as stated: the decoder returns the object for every fenced block,
\* wherever the object starts.
C18_Original ==
    dec.mode = "fenced" => dec.out = dec.src
\* C18 (amended): when the object starts on the line after the opening fence
\* (fence with or without language tag, closing fence on its own line, right
\* after the object or missing), the decoder returns the object; what stands
\* on the line of the opening fence is dropped.
C18_FenceStripping ==
    (dec.mode = "fenced" /\ dec.place = "nextline") => dec.out = dec.src
\* C18 witness: a tagged block with the closing fence on its own line was
\* decoded to its object.
C18_Witness ==
    /\ dec.mode = "fenced" /\ dec.place = "nextline" /\ dec.tag
    /\ dec.close = "newline" /\ dec.out = dec.src /\ Len(dec.src) > 2

Repairable ==
    /\ strip(dec.text) # <<>>
    /\ dec.trail => ~endswith(strip(dec.text), "}")
C20_AllOrNothing ==
    dec.mode # "none" =>
        /\ dec.out = None \/ IsMapping(dec.out)
        /\ ~AccessorRaises(dec.out)
        /\ strip(dec.text) = <<>> => dec.out = None

\* C21: a Ticket, Hotel or Attraction whose original primary record lacks the
\* identifier, with a translated output that decodes to an object, ends at
\* the missing-identifier reply whatever that object holds, also when it has
\* no record of the variant: the identifier is tested before the translated
\* record is.
C21_IdentifierFirst ==
    \A r \in Runs :
        (LacksIdentifier(r) /\ run[r].twTop = "dict") =>
            pc[r] = "send" /\ run[r].reply.kind = "MissingIdentifier"

\* The original output of run r decoded to an object in which no variant has
\* a non-empty primary record, and the run is past the translation step.
Unrecognized(r) ==
    /\ run[r].origTop = "dict" /\ run[r].variant = "None"
    /\ run[r].twTop # "unset"
\* C22: when the original output decodes to an object with no recognized
\* variant, the run is at the could-not-classify reply whatever the translated
\* output is, also when the translated output is empty or undecodable.
C22_PassThrough ==
    \A r \in Runs :
        Unrecognized(r) =>
            pc[r] = "send" /\ run[r].reply.kind = "NoVariantMatched"

\* C23: a run reaches the existence check only with a translated primary
\* record that carries the identifier of the original one, so in every run
\* that stores, the identifier the existence check was made with is the
\* identifier of the record handed to add_X and of the ledger row written.
C23_IdentifierAgreement ==
    \A r \in Runs :
        /\ pc[r] = "check" => run[r].tw.id = run[r].prim.id
        /\ run[r].appended =>
              /\ run[r].addRec.id = run[r].checkId
              /\ HasRow(LedgerOf(run[r].addV), run[r].user, CellOf(run[r].checkId))

\* C24: an accessor called on an object without the key of its variant
\* returns no primary record and an empty child collection, also when the
\* object holds a non-empty list under the sibling key.
C24_AbsentYieldsNothing ==
    (acc.fn = "main" /\ acc.pv = Missing) =>
        acc.primary = JNull /\ acc.children = EmptyList

\* C25: the child collection an accessor returns is the value under the
\* sibling key when that value is a list, and the empty list when the key is
\* absent or its value is not a list.
C25_ChildrenNormalized ==
    (acc.fn # "none" /\ SiblingOf(acc.variant) # "-") =>
        acc.children = IF acc.cv.kind = "list" THEN acc.cv ELSE EmptyList

\* ws grew by exactly one row, put after the rows it had, which are as they
\* were.
AppendedOne(old, new) ==
    Len(new) = Len(old) + 1 /\ SubSeq(new, 1, Len(old)) = old
\* C26: every call of store_receipt or store_ticket that returns without
\* raising adds exactly one row to its worksheet, after the rows that were
\* there, and changes none of them nor the other worksheet, also when a row
\* of the same user and identifier is already there; no step of the image
\* pipeline removes or changes a row.
C26_Step ==
    /\ \A r \in Runs :
          (pc[r] = "store" /\ pc'[r] = "render") =>
              LET rec == StoredRecord(run[r])
                  called(v) == run[r].variant = v /\ StoreReachesSheet(v, rec.data)
              IN /\ (called("Receipt") /\ "store" \notin run'[r].faults) =>
                        AppendedOne(receipts_ws, receipts_ws') /\ UNCHANGED tickets_ws
                 /\ (called("Ticket") /\ "store" \notin run'[r].faults) =>
                        AppendedOne(tickets_ws, tickets_ws') /\ UNCHANGED receipts_ws
    /\ text' = NoText =>
          /\ Len(receipts_ws') >= Len(receipts_ws)
          /\ SubSeq(receipts_ws', 1, Len(receipts_ws)) = receipts_ws
          /\ Len(tickets_ws') >= Len(tickets_ws)
          /\ SubSeq(tickets_ws', 1, Len(tickets_ws)) = tickets_ws
C26_AppendOnly == [][C26_Step]_vars
\* C26 witness: a run stored a row although a row of its user with the same
\* identifier was there: the worksheet holds both.
C26_Witness ==
    \E r \in Runs :
        /\ run[r].appended /\ run[r].addV = "Receipt"
        /\ Cardinality(RowsOf(receipts_ws, run[r].user, CellOf(run[r].addRec.id))) >= 2

\* C27: every row of the Receipts and of the Tickets worksheet has a
\* non-empty identifier cell.
C27_IdentifierNonEmpty ==
    \A v \in {"Receipt", "Ticket"} : \A k \in 1 .. Len(LedgerOf(v)) :
        LedgerOf(v)[k].id # ""

\* C28: in main_aoai.py, when the original model output cannot be decoded,
\* the event ends with a failure reply, with neither the existence check nor
\* the store called, and no exception leaves the handler.
C28_AoaiDecodeFailure ==
    (aoai.out # "none" /\ aoai.parsed = None) =>
        /\ aoai.out = "DecodeFailed"
        /\ ~aoai.checked /\ ~aoai.stored

\* C29: with no collaborator call raising, no run of the image pipeline ends
\* by an exception: every run that is past the model calls is on its way to
\* one reply, which is one of the terminal messages or the rendered record,
\* and every run that ended sent its reply.
C29_OneReply ==
    \A r \in Runs :
        /\ pc[r] # "crashed"
        /\ pc[r] = "send" => run[r].reply.kind \in FailureKinds \cup {"Rendered"}

\* C30: in one webhook call, an image event that ends in a terminal state
\* other than NoVariantMatched ends the call: it is the last event the loop
\* reached, whatever events follow it.  After a text event that was replied
\* to, an event that is skipped, and an image event that ends in
\* NoVariantMatched, the loop goes on: the call ends only when an event
\* returns or raises, or when no event is left.
C30_Batch ==
    /\ \A k \in 1 .. Len(batch.log) :
          LET e == batch.log[k]
          IN /\ e.type = batch.events[k]
             /\ (e.type = "image" /\ e.kind \notin {"NoVariantMatched", "Raised"}) =>
                   k = Len(batch.log) /\ batch.status = "returned"
             /\ (e.kind \in {"Replied", "Skipped", "NoVariantMatched"}) =>
                   /\ batch.status \notin {"returned"} \/ k < Len(batch.log)
                   /\ (k = Len(batch.log) /\ k < Len(batch.events)) =>
                         batch.status = "running"
    /\ batch.status = "finished" => Len(batch.log) = Len(batch.events)
    /\ batch.status = "returned" =>
          /\ batch.log # <<>>
          /\ batch.log[Len(batch.log)].type = "image"
          /\ batch.log[Len(batch.log)].kind # "NoVariantMatched"
\* C30 witness: the loop went past a text event and an image that ended in
\* NoVariantMatched, or two of one kind, then an image event returned, and an
\* event of the batch was never reached.
C30_Witness ==
    /\ batch.status = "returned"
    /\ Len(batch.log) = 2 /\ Len(batch.events) = 3
    /\ batch.log[1].kind \in {"Replied", "NoVariantMatched"}

=============================================================================
